---- MODULE Spec2Model ----
(***************************************************************************)
(* Model of the dual-channel switching regulator core                      *)
(* (src/firmware/regulator.c).  The control plane (the public API) runs    *)
(* in thread context and is preempted by the ADC conversion-complete       *)
(* interrupt (adc1_isr) between its statements; the interrupt handler runs *)
(* to completion.  Hardware registers hold the values the driver calls     *)
(* write to them.                                                          *)
(***************************************************************************)
EXTENDS Integers, Sequences, FiniteSets, TLC

VARIABLES
  chan,     \* chan[1], chan[2]: the two struct regulator_t
  ch2_oc,   \* the output compare unit driving channel 2
  hw,       \* RCC, TIM2/3/4/7, ADC1, NVIC and GPIOA5 registers
  halted,   \* the core spins in set_pwm_duty's while (1)
  cp,       \* the control-plane call in progress and its position
  last,     \* the call or interrupt that completed last, and its result
  nCalls,   \* number of API calls started
  nTicks    \* number of ADC interrupts taken

vars == <<chan, ch2_oc, hw, halted, cp, last, nCalls, nTicks>>

(***************************************************************************)
(* Bounds of the exploration.                                              *)
(***************************************************************************)
MaxCalls == 3
MaxTicks == 1

(***************************************************************************)
(* Program constants.                                                      *)
(***************************************************************************)
INT_MAX == 2147483647
INT_MIN == (-2147483647) - 1
fudge == 2000
W16 == 65536

Channels == {1, 2}
Modes == {"DISABLED", "CONST_DUTY", "CURRENT_FB", "VOLTAGE_FB", "MAX_POWER"}
Sources == {"BATTERY", "INPUT"}
OCs == {"TIM_OC1", "TIM_OC3"}
Timers == {"TIM2", "TIM3", "TIM4", "TIM7"}

(***************************************************************************)
(* Machine arithmetic.  Values are 32-bit; products are formed from 16-bit *)
(* halves so that every intermediate result stays inside 32 bits.          *)
(***************************************************************************)
Lo16(x) == x % W16
Hi16(x) == (x \div W16) % W16

\* floor(a * b / 2^16) for 0 <= a, b < 2^16
MulHi(a, b) == ((a \div 256) * b + ((a % 256) * b) \div 256) \div 256

\* (a * b) mod 2^16 for 0 <= a, b < 2^16
MulMod16(a, b) == ((((a \div 256) * b) % 256) * 256 + (a % 256) * b) % W16

\* the low 32 bits of a * b as 16-bit halves, a and b any 32-bit values
Mul32(a, b) ==
  [lo |-> MulMod16(Lo16(a), Lo16(b)),
   hi |-> (MulHi(Lo16(a), Lo16(b)) + MulMod16(Hi16(a), Lo16(b))
           + MulMod16(Lo16(a), Hi16(b))) % W16]

\* (int) ((int64_t) a - b): the difference reduced modulo 2^32 into int
Sub32(a, b) ==
  IF b > 0 /\ a < INT_MIN + b THEN (((a - INT_MIN) - b) + INT_MAX) + 1
  ELSE IF b < 0 /\ a > INT_MAX + b THEN (((a - INT_MAX) - b) + INT_MIN) - 1
  ELSE a - b

\* (int) ((int64_t) a + b)
Add32(a, b) ==
  IF b > 0 /\ a > INT_MAX - b THEN (((a - INT_MAX) + b) + INT_MIN) - 1
  ELSE IF b < 0 /\ a < INT_MIN - b THEN (((a - INT_MIN) + b) + INT_MAX) + 1
  ELSE a + b

\* ((int64_t) e * g) >> 16 for a 16.16 gain g
FixMul(e, g) == e * (g \div W16) + (e * (g % W16)) \div W16

\* C's integer division by 2, truncating toward zero
Half(d) == IF d >= 0 THEN d \div 2 ELSE (d + 1) \div 2

(***************************************************************************)
(* Hardware registers and the driver calls that write them.                *)
(***************************************************************************)
TimerResetRegs ==
  [cen |-> FALSE, oe |-> {}, ocpe |-> {},
   ocm |-> [o \in OCs |-> "FROZEN"], ccr |-> [o \in OCs |-> 0],
   cms |-> "EDGE", arpe |-> FALSE, psc |-> 0, arr |-> 0, shadow |-> 0,
   mms |-> "RESET", sms |-> "OFF", ts |-> "ITR0"]

AdcResetRegs ==
  [adon |-> FALSE, jexten |-> "DISABLED", jextsel |-> "NONE", smp |-> "RESET",
   jeocie |-> FALSE, pre |-> "RESET", jseq |-> <<>>, scan |-> FALSE]

\* registers after reset and regulator_init
HwInit ==
  [apb1enr |-> {}, apb2enr |-> {}, hsi |-> FALSE, nvic_adc1 |-> FALSE,
   gpioa5 |-> FALSE, adc |-> AdcResetRegs,
   tim |-> [t \in Timers |-> TimerResetRegs]]

\* the injected sequence: vsense1_ch, isense1_ch, vsense2_ch, isense2_ch
sequence == <<4, 3, 21, 20>>

\* the ADC delivers conversion-complete interrupts
AdcRunning(h) ==
  /\ h.hsi /\ "ADC1" \in h.apb2enr /\ "TIM7" \in h.apb1enr
  /\ h.adc.adon /\ h.tim["TIM7"].cen

AdcIrqArmed(h) ==
  AdcRunning(h) /\ h.nvic_adc1 /\ h.adc.jeocie /\ h.adc.jexten = "RISING"

\* setup_common_peripherals powering down when either channel is DISABLED
setup_common_peripherals_either(h, ch) ==
  IF ch[1].mode = "DISABLED" \/ ch[2].mode = "DISABLED"
  THEN [h EXCEPT !.adc.adon = IF "ADC1" \in h.apb2enr THEN FALSE ELSE @,
                 !.apb1enr = @ \ {"TIM7"},
                 !.apb2enr = @ \ {"ADC1"},
                 !.hsi = FALSE]
  ELSE [h EXCEPT !.hsi = TRUE,
                 !.apb1enr = @ \cup {"TIM7"},
                 !.apb2enr = @ \cup {"ADC1"},
                 !.nvic_adc1 = TRUE,
                 !.adc = [adon |-> TRUE, jexten |-> "RISING", jextsel |-> "TIM7_TRGO",
                          smp |-> "96CYC", jeocie |-> TRUE, pre |-> "DIV4",
                          jseq |-> sequence, scan |-> TRUE],
                 !.tim["TIM7"] = [TimerResetRegs EXCEPT !.psc = 1, !.arr = 2097,
                                    !.mms = "UPDATE", !.cen = TRUE]]

setup_common_peripherals(h, ch) ==
  IF ch[1].mode = "DISABLED" /\ ch[2].mode = "DISABLED"
  THEN [h EXCEPT !.adc.adon = IF "ADC1" \in h.apb2enr THEN FALSE ELSE @,
                 !.apb1enr = @ \ {"TIM7"},
                 !.apb2enr = @ \ {"ADC1"},
                 !.hsi = FALSE]
  ELSE [h EXCEPT !.hsi = TRUE,
                 !.apb1enr = @ \cup {"TIM7"},
                 !.apb2enr = @ \cup {"ADC1"},
                 !.nvic_adc1 = TRUE,
                 !.adc = [adon |-> TRUE, jexten |-> "RISING", jextsel |-> "TIM7_TRGO",
                          smp |-> "96CYC", jeocie |-> TRUE, pre |-> "DIV4",
                          jseq |-> sequence, scan |-> TRUE],
                 !.tim["TIM7"] = [TimerResetRegs EXCEPT !.psc = 1, !.arr = 2097,
                                    !.mms = "UPDATE", !.cen = TRUE]]

\* t = ((uint64_t) d * period) >> 16, for 0 <= d <= 0xffff
PwmTicks(period, d) == d * (period \div W16) + MulHi(d, period % W16)

\* set_pwm_duty writing the low 16 bits of t instead of spinning
set_pwm_duty_truncate(h, timer, oc, period, d) ==
  [hw |-> [h EXCEPT !.tim[timer].ccr[oc] = PwmTicks(period, d) % W16], halt |-> FALSE]

\* the timer's registers after set_pwm_duty, and whether it spins forever
set_pwm_duty(h, timer, oc, period, d) ==
  IF PwmTicks(period, d) > 65535
  THEN [hw |-> h, halt |-> TRUE]
  ELSE [hw |-> [h EXCEPT !.tim[timer].ccr[oc] = PwmTicks(period, d)], halt |-> FALSE]

configure_pwm(h, timer, oc, period, pol, t) ==
  [h EXCEPT !.tim[timer] =
     [TimerResetRegs EXCEPT !.ocm[oc] = IF pol THEN "PWM1" ELSE "PWM2",
                            !.ccr[oc] = t,
                            !.ocpe = {oc},
                            !.oe = {oc},
                            !.cms = "CENTER_3",
                            !.arpe = TRUE,
                            !.arr = period,
                            !.shadow = period]]

configure_dual_pwm(h, timer_a, oc_a, timer_b, oc_b, slave_trigger_src, period, ta, tb, dt) ==
  LET h1 == configure_pwm(h, timer_a, oc_a, period, TRUE, ta)
      h2 == configure_pwm(h1, timer_b, oc_b, period, TRUE, tb)
  IN [h2 EXCEPT !.tim[timer_a].mms = "ENABLE",
                !.tim[timer_b].sms = "GATED",
                !.tim[timer_b].ts = slave_trigger_src,
                !.tim[timer_a].shadow = period - dt,
                !.tim[timer_a].arr = period]

(***************************************************************************)
(* The two channels.                                                       *)
(***************************************************************************)
feedback_gains == [prop_gain1 |-> 65536, prop_gain2 |-> 65536]

\* vsense_gain = (1<<12) / 3.3 * 33/(33+68), isense_gain = (1<<12) / (3.3 / 0.05 / 10)
chan1 ==
  [vsense_gain |-> 405, isense_gain |-> 620, period |-> 400,
   duty1 |-> 0, duty2 |-> 0, isense |-> 0, vsense |-> 0, mode |-> "DISABLED",
   isetpoint |-> 0, vlimit |-> 65535, vsetpoint |-> 0, ilimit |-> 65535,
   i_gains |-> feedback_gains, v_gains |-> feedback_gains]

\* isense_gain = (1<<12) / (3.3 / 0.05 / 47)
chan2 ==
  [vsense_gain |-> 405, isense_gain |-> 2916, period |-> 400,
   duty1 |-> 0, duty2 |-> 0, isense |-> 0, vsense |-> 0, mode |-> "DISABLED",
   isetpoint |-> 0, vlimit |-> 65535, vsetpoint |-> 0, ilimit |-> 65535,
   i_gains |-> feedback_gains, v_gains |-> feedback_gains]

\* pwm_ret is what configure_dual_pwm returns
configure_ch1(h, reg, pwm_ret) ==
  LET dt == 16
      ta == Mul32(reg.period, reg.duty1).hi
      tb == Mul32(reg.period, reg.duty2).hi
      h1 == configure_dual_pwm(h, "TIM2", "TIM_OC3", "TIM4", "TIM_OC3", "ITR1",
                               reg.period, ta, tb, dt)
  IN IF pwm_ret # 0 THEN h1
     ELSE [h1 EXCEPT !.tim["TIM4"].cen = TRUE, !.tim["TIM2"].cen = TRUE]

enable_ch1(h, ch) ==
  setup_common_peripherals(
    [h EXCEPT !.gpioa5 = TRUE, !.apb1enr = @ \cup {"TIM2", "TIM4"}], ch)

disable_ch1(h, ch) ==
  LET h1 == [h EXCEPT !.tim["TIM2"].oe = @ \ {"TIM_OC3"},
                      !.tim["TIM4"].oe = @ \ {"TIM_OC3"},
                      !.tim["TIM2"].cen = FALSE,
                      !.tim["TIM4"].cen = FALSE,
                      !.apb1enr = @ \ {"TIM2", "TIM4"}]
  IN [setup_common_peripherals(h1, ch) EXCEPT !.gpioa5 = FALSE]

update_duty_ch1(h, reg) ==
  LET h0 == [h EXCEPT !.tim["TIM2"].cen = FALSE]
      s1 == set_pwm_duty(h0, "TIM2", "TIM_OC3", reg.period, reg.duty1)
      s2 == set_pwm_duty(s1.hw, "TIM4", "TIM_OC3", reg.period, reg.duty2)
  IN IF s1.halt THEN s1
     ELSE IF s2.halt THEN s2
     ELSE [hw |-> [s2.hw EXCEPT !.tim["TIM2"].cen = TRUE], halt |-> FALSE]

\* pwm_ret is what configure_pwm returns
configure_ch2(h, reg, oc, pwm_ret) ==
  LET m == Mul32(reg.period, reg.duty1)
      t == m.hi + (m.hi + m.lo) \div 65535
      h1 == configure_pwm(h, "TIM3", oc, reg.period, TRUE, t % W16)
  IN IF pwm_ret # 0 THEN h1 ELSE [h1 EXCEPT !.tim["TIM3"].cen = TRUE]

enable_ch2(h, ch) ==
  setup_common_peripherals([h EXCEPT !.apb1enr = @ \cup {"TIM3"}], ch)

disable_ch2(h, ch) ==
  setup_common_peripherals(
    [h EXCEPT !.tim["TIM3"].oe = @ \ {"TIM_OC1", "TIM_OC3"},
              !.tim["TIM3"].cen = FALSE,
              !.apb1enr = @ \ {"TIM3"}], ch)

update_duty_ch2(h, reg, oc) == set_pwm_duty(h, "TIM3", oc, reg.period, reg.duty1)

\* dispatch through the channel's function pointers
enable_func(c, h, ch) == IF c = 1 THEN enable_ch1(h, ch) ELSE enable_ch2(h, ch)
disable_func(c, h, ch) == IF c = 1 THEN disable_ch1(h, ch) ELSE disable_ch2(h, ch)
configure_func(c, h, ch, oc, pwm_ret) ==
  IF c = 1 THEN configure_ch1(h, ch[1], pwm_ret) ELSE configure_ch2(h, ch[2], oc, pwm_ret)
update_duty_func(c, h, reg, oc) ==
  IF c = 1 THEN update_duty_ch1(h, reg) ELSE update_duty_ch2(h, reg, oc)

(***************************************************************************)
(* The feedback controller.                                                *)
(***************************************************************************)
\* MixBranch with the sign of the error test of its first arm reversed
MixBranch_sign(reg, error) ==
  IF error > 0 /\ reg.duty1 > 65535 - fudge /\ reg.duty2 > 65535 - fudge THEN "collapse"
  ELSE IF error < 0 /\ reg.duty1 > 65535 - fudge THEN "sw1_overflow"
  ELSE IF error > 0 /\ reg.duty1 < fudge THEN "sw1_underflow"
  ELSE IF error < 0 /\ reg.duty2 > fudge THEN "sw2"
  ELSE "normal"

\* MixBranch testing duty2 against fudge before duty1 against full scale
MixBranch_order(reg, error) ==
  IF error < 0 /\ reg.duty1 > 65535 - fudge /\ reg.duty2 > 65535 - fudge THEN "collapse"
  ELSE IF error < 0 /\ reg.duty2 > fudge THEN "sw2"
  ELSE IF error < 0 /\ reg.duty1 > 65535 - fudge THEN "sw1_overflow"
  ELSE IF error > 0 /\ reg.duty1 < fudge THEN "sw1_underflow"
  ELSE "normal"

\* which arm of the mixing algorithm regulator_feedback_error takes
MixBranch(reg, error) ==
  IF error < 0 /\ reg.duty1 > 65535 - fudge /\ reg.duty2 > 65535 - fudge THEN "collapse"
  ELSE IF error < 0 /\ reg.duty1 > 65535 - fudge THEN "sw1_overflow"
  ELSE IF error > 0 /\ reg.duty1 < fudge THEN "sw1_underflow"
  ELSE IF error < 0 /\ reg.duty2 > fudge THEN "sw2"
  ELSE "normal"

\* regulator_feedback_error adding the correction to duty1 in its last arm
regulator_feedback_error_plus(reg, gains, error) ==
  LET b == MixBranch(reg, error)
      r == CASE b = "collapse" ->
                  [reg EXCEPT !.duty1 = 65535 \div 2, !.duty2 = 65535 \div 2]
             [] b = "sw1_overflow" ->
                  [reg EXCEPT !.duty2 = Sub32(@, FixMul(error, gains.prop_gain2))]
             [] b = "sw1_underflow" ->
                  [reg EXCEPT !.duty2 = Sub32(@, FixMul(error, gains.prop_gain2))]
             [] b = "sw2" ->
                  [reg EXCEPT !.duty2 = Add32(@, FixMul(error, gains.prop_gain2))]
             [] OTHER ->
                  [reg EXCEPT !.duty1 = Add32(@, FixMul(error, gains.prop_gain1))]
  IN IF r.duty2 > r.duty1 THEN [r EXCEPT !.duty2 = r.duty1] ELSE r

regulator_feedback_error(reg, gains, error) ==
  LET b == MixBranch(reg, error)
      r == CASE b = "collapse" ->
                  [reg EXCEPT !.duty1 = 65535 \div 2, !.duty2 = 65535 \div 2]
             [] b = "sw1_overflow" ->
                  [reg EXCEPT !.duty2 = Sub32(@, FixMul(error, gains.prop_gain2))]
             [] b = "sw1_underflow" ->
                  [reg EXCEPT !.duty2 = Sub32(@, FixMul(error, gains.prop_gain2))]
             [] b = "sw2" ->
                  [reg EXCEPT !.duty2 = Add32(@, FixMul(error, gains.prop_gain2))]
             [] OTHER ->
                  [reg EXCEPT !.duty1 = Sub32(@, FixMul(error, gains.prop_gain1))]
  IN IF r.duty2 > r.duty1 THEN [r EXCEPT !.duty2 = r.duty1] ELSE r

\* Clamp without its upper limit
Clamp_lower(d) == IF d < 0 THEN 0 ELSE d

Clamp(d) == IF d < 0 THEN 0 ELSE IF d > 65535 THEN 65535 ELSE d

\* regulator_feedback testing each mode's own quantity against its limit
regulator_feedback_own_limit(reg) ==
  IF reg.mode = "DISABLED" \/ reg.mode = "CONST_DUTY" THEN reg
  ELSE LET r == IF reg.mode = "VOLTAGE_FB"
                THEN IF reg.vsense > reg.vlimit
                     THEN [reg EXCEPT !.duty1 = Half(@), !.duty2 = Half(@)]
                     ELSE regulator_feedback_error(reg, reg.v_gains,
                                                   reg.vsense - reg.vsetpoint)
                ELSE IF reg.mode = "CURRENT_FB"
                THEN IF reg.isense > reg.ilimit
                     THEN [reg EXCEPT !.duty1 = Half(@), !.duty2 = Half(@)]
                     ELSE regulator_feedback_error(reg, reg.i_gains,
                                                   reg.isense - reg.isetpoint)
                ELSE reg
       IN [r EXCEPT !.duty1 = Clamp(@), !.duty2 = Clamp(@)]

\* the channel after regulator_feedback, before update_duty_func
regulator_feedback(reg) ==
  IF reg.mode = "DISABLED" \/ reg.mode = "CONST_DUTY" THEN reg
  ELSE LET r == IF reg.mode = "VOLTAGE_FB"
                THEN IF reg.isense > reg.ilimit
                     THEN [reg EXCEPT !.duty1 = Half(@), !.duty2 = Half(@)]
                     ELSE regulator_feedback_error(reg, reg.v_gains,
                                                   reg.vsense - reg.vsetpoint)
                ELSE IF reg.mode = "CURRENT_FB"
                THEN IF reg.vsense > reg.vlimit
                     THEN [reg EXCEPT !.duty1 = Half(@), !.duty2 = Half(@)]
                     ELSE regulator_feedback_error(reg, reg.i_gains,
                                                   reg.isense - reg.isetpoint)
                ELSE reg
       IN [r EXCEPT !.duty1 = Clamp(@), !.duty2 = Clamp(@)]

\* the path regulator_feedback takes through its branches
FeedbackPath(reg) ==
  IF reg.mode = "DISABLED" \/ reg.mode = "CONST_DUTY" THEN "return"
  ELSE IF reg.mode = "VOLTAGE_FB"
  THEN IF reg.isense > reg.ilimit THEN "halve"
       ELSE MixBranch(reg, reg.vsense - reg.vsetpoint)
  ELSE IF reg.mode = "CURRENT_FB"
  THEN IF reg.vsense > reg.vlimit THEN "halve"
       ELSE MixBranch(reg, reg.isense - reg.isetpoint)
  ELSE "clamp_only"

(***************************************************************************)
(* Inputs.                                                                 *)
(***************************************************************************)
\* mode arguments of regulator_set_mode on channel c
ModeInputs(c) ==
  IF c = 1 THEN Modes ELSE {"DISABLED", "CONST_DUTY", "VOLTAGE_FB"}

\* (d1, d2) arguments of regulator_set_duty_cycle on channel c
DutyPairs(c) ==
  IF c = 1
  THEN { <<32768, 1000>>, <<32768, 32768>>, <<65535, 65535>>, <<65535, 32768>>,
         <<1000, 1000>>, <<1000, 32768>>, <<131072, 0>>, <<INT_MIN, INT_MIN>> }
  ELSE { <<65535, 65535>>, <<-1, -5>>, <<1000, 32768>> }

\* period arguments of regulator_set_period on channel c
PeriodInputs(c) == IF c = 1 THEN {65535, 131072} ELSE {131072}

\* 16.16 physical values given to the setpoint setters of channel c
SetpointInputs(c) == IF c = 1 THEN {323636, 16777216} ELSE {323636}

\* (vsense1, isense1, vsense2, isense2) as read from the injected data registers
Samples == { <<1800, 1800, 1800, 1800>>, <<4095, 4095, 4095, 4095>> }

(***************************************************************************)
(* State.                                                                  *)
(***************************************************************************)
NoPath == [c \in Channels |-> "-"]

Idle == [op |-> "idle", ch |-> 0, pc |-> "-", mode |-> "-", old |-> "-",
         d1 |-> 0, d2 |-> 0, ret |-> 0, calls |-> <<>>]

Done(op, c, ret, calls) ==
  [op |-> op, ch |-> c, arg |-> 0, ret |-> ret, calls |-> calls, path |-> NoPath]

Init ==
  /\ chan = [c \in Channels |-> IF c = 1 THEN chan1 ELSE chan2]
  /\ ch2_oc = "TIM_OC3"
  /\ hw = HwInit
  /\ halted = FALSE
  /\ cp = Idle
  /\ last = Done("regulator_init", 0, 0, <<>>)
  /\ nCalls = 0
  /\ nTicks = 0

CanCall == ~halted /\ cp.op = "idle" /\ nCalls < MaxCalls

(***************************************************************************)
(* The interrupt handler.                                                  *)
(***************************************************************************)
\* Updates with the second early return of regulator_feedback removed
Updates_const(reg) == reg.mode # "DISABLED"

\* regulator_feedback reaches its call of update_duty_func
\* Updates returning before the push when the opposing limit is exceeded
Updates_unless_limited(reg) ==
  /\ reg.mode # "DISABLED" /\ reg.mode # "CONST_DUTY"
  /\ ~(reg.mode = "VOLTAGE_FB" /\ reg.isense > reg.ilimit)
  /\ ~(reg.mode = "CURRENT_FB" /\ reg.vsense > reg.vlimit)

Updates(reg) == reg.mode # "DISABLED" /\ reg.mode # "CONST_DUTY"

adc1_isr(s) ==
  /\ ~halted /\ AdcIrqArmed(hw) /\ nTicks < MaxTicks
  /\ LET c0 == [chan EXCEPT ![1].vsense = s[1], ![1].isense = s[2],
                            ![2].vsense = s[3], ![2].isense = s[4]]
         r1 == regulator_feedback(c0[1])
         u1 == IF Updates(c0[1]) THEN update_duty_ch1(hw, r1)
               ELSE [hw |-> hw, halt |-> FALSE]
         r2 == regulator_feedback(c0[2])
         u2 == IF Updates(c0[2]) THEN update_duty_ch2(u1.hw, r2, ch2_oc)
               ELSE [hw |-> u1.hw, halt |-> FALSE]
         k1 == IF Updates(c0[1]) THEN << <<"update_duty", 1>> >> ELSE <<>>
         k2 == IF Updates(c0[2]) THEN << <<"update_duty", 2>> >> ELSE <<>>
     IN IF u1.halt
        THEN /\ chan' = [c0 EXCEPT ![1] = r1]
             /\ hw' = u1.hw
             /\ halted' = TRUE
             /\ last' = [Done("adc1_isr", 0, 0, k1) EXCEPT
                           !.path = [NoPath EXCEPT ![1] = FeedbackPath(c0[1])]]
        ELSE /\ chan' = [c0 EXCEPT ![1] = r1, ![2] = r2]
             /\ hw' = u2.hw
             /\ halted' = u2.halt
             /\ last' = [Done("adc1_isr", 0, 0, k1 \o k2) EXCEPT
                           !.path = [c \in Channels |-> FeedbackPath(c0[c])]]
  /\ nTicks' = nTicks + 1
  /\ UNCHANGED <<ch2_oc, cp, nCalls>>

(***************************************************************************)
(* The public interface.                                                   *)
(***************************************************************************)
\* regulator_set_mode whose second test is a bare else
regulator_set_mode_else(c, mode) ==
  /\ CanCall
  /\ cp' = [Idle EXCEPT !.op = "regulator_set_mode", !.ch = c, !.pc = "switch",
                        !.mode = mode, !.old = chan[c].mode]
  /\ chan' = [chan EXCEPT ![c].mode = mode]
  /\ nCalls' = nCalls + 1
  /\ UNCHANGED <<ch2_oc, hw, halted, last, nTicks>>

\* old_mode = reg->mode; reg->mode = mode;
regulator_set_mode(c, mode) ==
  /\ CanCall
  /\ cp' = [Idle EXCEPT !.op = "regulator_set_mode", !.ch = c,
                        !.pc = IF chan[c].mode = "DISABLED" \/ mode = "DISABLED"
                               THEN "switch" ELSE "configure",
                        !.mode = mode, !.old = chan[c].mode]
  /\ chan' = [chan EXCEPT ![c].mode = mode]
  /\ nCalls' = nCalls + 1
  /\ UNCHANGED <<ch2_oc, hw, halted, last, nTicks>>

\* enable_func or disable_func (a change between two enabled modes calls neither);
\* a call with mode == DISABLED returns 0 here
regulator_set_mode_switch ==
  /\ ~halted /\ cp.op = "regulator_set_mode" /\ cp.pc = "switch"
  /\ LET c == cp.ch IN
     IF cp.old = "DISABLED" /\ cp.mode # "DISABLED"
     THEN /\ hw' = enable_func(c, hw, chan)
          /\ cp' = [cp EXCEPT !.pc = "configure", !.calls = Append(@, "enable")]
          /\ UNCHANGED last
     ELSE /\ hw' = disable_func(c, hw, chan)
          /\ cp' = Idle
          /\ last' = Done(cp.op, c, 0, Append(cp.calls, "disable"))
  /\ UNCHANGED <<chan, ch2_oc, halted, nCalls, nTicks>>

\* ret = reg->configure_func(), which returns 0
regulator_set_mode_configure ==
  /\ ~halted /\ cp.op = "regulator_set_mode" /\ cp.pc = "configure"
  /\ hw' = configure_func(cp.ch, hw, chan, ch2_oc, 0)
  /\ cp' = Idle
  /\ last' = Done(cp.op, cp.ch, 0, Append(cp.calls, "configure"))
  /\ UNCHANGED <<chan, ch2_oc, halted, nCalls, nTicks>>

\* ret = reg->configure_func(), with a PWM driver that reports a fault
regulator_set_mode_configure_fault ==
  /\ ~halted /\ cp.op = "regulator_set_mode" /\ cp.pc = "configure"
  /\ hw' = configure_func(cp.ch, hw, chan, ch2_oc, -1)
  /\ cp' = [cp EXCEPT !.pc = "fault", !.ret = -1, !.calls = Append(@, "configure_fault")]
  /\ UNCHANGED <<chan, ch2_oc, halted, last, nCalls, nTicks>>

\* the fault path without the store of DISABLED
regulator_set_mode_fault_keep ==
  /\ ~halted /\ cp.op = "regulator_set_mode" /\ cp.pc = "fault"
  /\ cp' = [cp EXCEPT !.pc = "fault_disable"]
  /\ UNCHANGED <<chan, ch2_oc, hw, halted, last, nCalls, nTicks>>

\* if (ret != 0) reg->mode = DISABLED;
regulator_set_mode_fault ==
  /\ ~halted /\ cp.op = "regulator_set_mode" /\ cp.pc = "fault"
  /\ chan' = [chan EXCEPT ![cp.ch].mode = "DISABLED"]
  /\ cp' = [cp EXCEPT !.pc = "fault_disable"]
  /\ UNCHANGED <<ch2_oc, hw, halted, last, nCalls, nTicks>>

\* reg->disable_func(); return ret;
regulator_set_mode_fault_disable ==
  /\ ~halted /\ cp.op = "regulator_set_mode" /\ cp.pc = "fault_disable"
  /\ hw' = disable_func(cp.ch, hw, chan)
  /\ cp' = Idle
  /\ last' = Done(cp.op, cp.ch, cp.ret, Append(cp.calls, "disable"))
  /\ UNCHANGED <<chan, ch2_oc, halted, nCalls, nTicks>>

\* regulator_set_duty_cycle without the d2 > d1 check
regulator_set_duty_cycle_unordered(c, d1, d2) ==
  /\ CanCall
  /\ nCalls' = nCalls + 1
  /\ IF chan[c].mode # "CONST_DUTY" /\ chan[c].mode # "DISABLED"
     THEN /\ last' = Done("regulator_set_duty_cycle", c, 1, <<>>)
          /\ UNCHANGED <<chan, cp>>
     ELSE /\ chan' = [chan EXCEPT ![c].duty1 = d1]
          /\ cp' = [Idle EXCEPT !.op = "regulator_set_duty_cycle", !.ch = c,
                                !.pc = "duty2", !.d1 = d1, !.d2 = d2]
          /\ UNCHANGED last
  /\ UNCHANGED <<ch2_oc, hw, halted, nTicks>>

\* the mode and order checks, then reg->duty1 = d1;
regulator_set_duty_cycle(c, d1, d2) ==
  /\ CanCall
  /\ nCalls' = nCalls + 1
  /\ IF chan[c].mode # "CONST_DUTY" /\ chan[c].mode # "DISABLED"
     THEN /\ last' = Done("regulator_set_duty_cycle", c, 1, <<>>)
          /\ UNCHANGED <<chan, cp>>
     ELSE IF d2 > d1
     THEN /\ last' = Done("regulator_set_duty_cycle", c, 2, <<>>)
          /\ UNCHANGED <<chan, cp>>
     ELSE /\ chan' = [chan EXCEPT ![c].duty1 = d1]
          /\ cp' = [Idle EXCEPT !.op = "regulator_set_duty_cycle", !.ch = c,
                                !.pc = "duty2", !.d1 = d1, !.d2 = d2]
          /\ UNCHANGED last
  /\ UNCHANGED <<ch2_oc, hw, halted, nTicks>>

\* reg->duty2 = d2; reg->configure_func(); return 0;
regulator_set_duty_cycle_duty2 ==
  /\ ~halted /\ cp.op = "regulator_set_duty_cycle" /\ cp.pc = "duty2"
  /\ chan' = [chan EXCEPT ![cp.ch].duty2 = cp.d2]
  /\ hw' = configure_func(cp.ch, hw, chan', ch2_oc, 0)
  /\ cp' = Idle
  /\ last' = Done(cp.op, cp.ch, 0, <<"configure">>)
  /\ UNCHANGED <<ch2_oc, halted, nCalls, nTicks>>

\* (uint16_t) ((uint32_t) (gain * setpoint) >> 16)
Codepoint(gain, setpoint) == Mul32(gain, setpoint).hi

regulator_set_vsetpoint(c, setpoint) ==
  /\ CanCall
  /\ nCalls' = nCalls + 1
  /\ LET v == Codepoint(chan[c].vsense_gain, setpoint) IN
     IF v > chan[c].vlimit
     THEN /\ last' = Done("regulator_set_vsetpoint", c, 1, <<>>)
          /\ UNCHANGED chan
     ELSE /\ chan' = [chan EXCEPT ![c].vsetpoint = v]
          /\ last' = [Done("regulator_set_vsetpoint", c, 0, <<>>) EXCEPT !.arg = setpoint]
  /\ UNCHANGED <<ch2_oc, hw, halted, cp, nTicks>>

regulator_set_isetpoint(c, setpoint) ==
  /\ CanCall
  /\ nCalls' = nCalls + 1
  /\ LET i == Codepoint(chan[c].isense_gain, setpoint) IN
     IF i > chan[c].ilimit
     THEN /\ last' = Done("regulator_set_isetpoint", c, 1, <<>>)
          /\ UNCHANGED chan
     ELSE /\ chan' = [chan EXCEPT ![c].isetpoint = i]
          /\ last' = [Done("regulator_set_isetpoint", c, 0, <<>>) EXCEPT !.arg = setpoint]
  /\ UNCHANGED <<ch2_oc, hw, halted, cp, nTicks>>

\* floor(n * 2^16 / gain) for 0 <= n < 2^16
ShiftDiv(n, gain) == (n \div gain) * W16 + ((n % gain) * W16) \div gain

\* (setpoint << 16) / gain.  The uint16_t setpoint is promoted to int, so the
\* shift overflows for setpoint >= 0x8000; the outcomes are those of a shift
\* that wraps, divided as unsigned (gain is uint32_t) or as signed.
CodepointToFixed(setpoint, gain) ==
  IF setpoint < 32768 THEN {ShiftDiv(setpoint, gain)}
  ELSE {ShiftDiv(setpoint, gain), -ShiftDiv(W16 - setpoint, gain)}

regulator_get_vsetpoint(c) ==
  /\ CanCall
  /\ nCalls' = nCalls + 1
  /\ \E r \in CodepointToFixed(chan[c].vsetpoint, chan[c].vsense_gain) :
       last' = Done("regulator_get_vsetpoint", c, r, <<>>)
  /\ UNCHANGED <<chan, ch2_oc, hw, halted, cp, nTicks>>

regulator_get_isetpoint(c) ==
  /\ CanCall
  /\ nCalls' = nCalls + 1
  /\ \E r \in CodepointToFixed(chan[c].isetpoint, chan[c].isense_gain) :
       last' = Done("regulator_get_isetpoint", c, r, <<>>)
  /\ UNCHANGED <<chan, ch2_oc, hw, halted, cp, nTicks>>

\* regulator_set_period without the mode check
regulator_set_period_any(c, period) ==
  /\ CanCall
  /\ nCalls' = nCalls + 1
  /\ chan' = [chan EXCEPT ![c].period = period]
  /\ last' = Done("regulator_set_period", c, 0, <<>>)
  /\ UNCHANGED <<ch2_oc, hw, halted, cp, nTicks>>

regulator_set_period(c, period) ==
  /\ CanCall
  /\ nCalls' = nCalls + 1
  /\ IF chan[c].mode # "DISABLED"
     THEN /\ last' = Done("regulator_set_period", c, -1, <<>>)
          /\ UNCHANGED chan
     ELSE /\ chan' = [chan EXCEPT ![c].period = period]
          /\ last' = Done("regulator_set_period", c, 0, <<>>)
  /\ UNCHANGED <<ch2_oc, hw, halted, cp, nTicks>>

regulator_set_ch2_source(src) ==
  /\ CanCall
  /\ nCalls' = nCalls + 1
  /\ IF chan[2].mode # "DISABLED"
     THEN /\ last' = Done("regulator_set_ch2_source", 2, -1, <<>>)
          /\ UNCHANGED <<ch2_oc, hw>>
     ELSE LET oc == IF src = "BATTERY" THEN "TIM_OC1" ELSE "TIM_OC3"
              h1 == [hw EXCEPT !.tim["TIM3"].oe = @ \ {"TIM_OC1", "TIM_OC3"}]
          IN /\ ch2_oc' = oc
             /\ hw' = configure_ch2(h1, chan[2], oc, 0)
             /\ last' = Done("regulator_set_ch2_source", 2, 0, <<"configure">>)
  /\ UNCHANGED <<chan, halted, cp, nTicks>>

Next ==
  \/ \E s \in Samples : adc1_isr(s)
  \/ \E c \in Channels : \E m \in ModeInputs(c) : regulator_set_mode(c, m)
  \/ regulator_set_mode_switch
  \/ regulator_set_mode_configure
  \/ \E c \in Channels : \E d \in DutyPairs(c) : regulator_set_duty_cycle(c, d[1], d[2])
  \/ regulator_set_duty_cycle_duty2
  \/ \E c \in Channels : \E x \in SetpointInputs(c) : regulator_set_vsetpoint(c, x)
  \/ \E c \in Channels : \E x \in SetpointInputs(c) : regulator_set_isetpoint(c, x)
  \/ \E c \in Channels : regulator_get_vsetpoint(c)
  \/ \E c \in Channels : regulator_get_isetpoint(c)
  \/ \E c \in Channels : \E p \in PeriodInputs(c) : regulator_set_period(c, p)
  \/ \E src \in Sources : regulator_set_ch2_source(src)

Spec == Init /\ [][Next]_vars

\* the same system with a PWM driver whose configure calls may report a fault
NextFault ==
  \/ Next
  \/ regulator_set_mode_configure_fault
  \/ regulator_set_mode_fault
  \/ regulator_set_mode_fault_disable

SpecFault == Init /\ [][NextFault]_vars

\* regulator_feedback on its own: channel 1 has just been switched to a
\* feedback mode, and its fields are drawn from the values a struct
\* regulator_t can hold, the limits and gains included
FeedbackRegs ==
  { [chan1 EXCEPT !.mode = md, !.duty1 = d[1], !.duty2 = d[2],
                  !.ilimit = lim[1], !.vlimit = lim[2],
                  !.vsetpoint = sp, !.isetpoint = sp, !.i_gains = g] :
      md \in {"VOLTAGE_FB", "CURRENT_FB"},
      d \in { <<60000, 50000>>, <<65535, 65535>>, <<32768, 1000>>, <<1000, 1000>>,
               <<0, 0>> },
      lim \in { <<65535, 1000>>, <<1000, 65535>> },
      sp \in {0, 2000, 4000},
      g \in {feedback_gains, [prop_gain1 |-> 32768, prop_gain2 |-> 16384]} }

InitFeedback ==
  /\ chan \in { [c \in Channels |-> IF c = 1 THEN r ELSE chan2] : r \in FeedbackRegs }
  /\ ch2_oc = "TIM_OC3"
  /\ hw = configure_ch1(enable_ch1(HwInit, chan), chan[1], 0)
  /\ halted = FALSE
  /\ cp = Idle
  /\ last = Done("regulator_set_mode", 1, 0, <<"enable", "configure">>)
  /\ nCalls = 0
  /\ nTicks = 0

NextFeedback == \E s \in Samples : adc1_isr(s)

SpecFeedback == InitFeedback /\ [][NextFeedback]_vars

(***************************************************************************)
(* Properties.                                                             *)
(***************************************************************************)
\* the step is one run of adc1_isr
TickStep == nTicks' = nTicks + 1

\* the state is the one a completed call of op has just returned in
Returned(op) == cp.op = "idle" /\ last.op = op

FeedbackModes == {"VOLTAGE_FB", "CURRENT_FB"}

\* the regulation error of channel c as adc1_isr computes it in this step
TickError(c) ==
  IF chan[c].mode = "VOLTAGE_FB" THEN chan'[c].vsense - chan[c].vsetpoint
  ELSE chan'[c].isense - chan[c].isetpoint

\* the opposing limit of channel c is exceeded in this step
TickLimit(c) ==
  IF chan[c].mode = "VOLTAGE_FB" THEN chan'[c].isense > chan[c].ilimit
  ELSE chan'[c].vsense > chan[c].vlimit

InRange(d) == 0 <= d /\ d <= 65536

\* C1: after every run of regulator_feedback on a channel, whatever its mode,
\* duty2 <= duty1 holds for that channel.  Stated over the channels whose
\* duties are fractions in [0, 0x10000], so that a violation owes nothing to
\* the out-of-range duties of C8.
C1_DutyOrderedAfterFeedback ==
  [][TickStep =>
       \A c \in Channels :
         (/\ last'.path[c] # "-"
          /\ InRange(chan[c].duty1) /\ InRange(chan[c].duty2))
         => chan'[c].duty2 <= chan'[c].duty1]_vars

\* C2 as stated: with the limit not exceeded, a negative error and both duties
\* above 0xffff - fudge, one tick leaves both duties at exactly 0x8000.
C2_CollapseResetsTo8000 ==
  [][TickStep =>
       \A c \in Channels :
         (/\ chan[c].mode \in FeedbackModes /\ last'.path[c] # "-"
          /\ ~TickLimit(c) /\ TickError(c) < 0
          /\ chan[c].duty1 > 65535 - fudge /\ chan[c].duty2 > 65535 - fudge)
         => chan'[c].duty1 = 32768 /\ chan'[c].duty2 = 32768]_vars

\* C2 as amended: under the same conditions one tick leaves both duties at
\* exactly 0x7fff, which is 0xffff / 2.
C2_CollapseResetsTo7fff ==
  [][TickStep =>
       \A c \in Channels :
         (/\ chan[c].mode \in FeedbackModes /\ last'.path[c] # "-"
          /\ ~TickLimit(c) /\ TickError(c) < 0
          /\ chan[c].duty1 > 65535 - fudge /\ chan[c].duty2 > 65535 - fudge)
         => chan'[c].duty1 = 32767 /\ chan'[c].duty2 = 32767]_vars

C2_Witness ==
  /\ last.op = "adc1_isr" /\ last.path[1] = "collapse"
  /\ chan[1].mode = "VOLTAGE_FB" /\ chan[1].vsense < chan[1].vsetpoint
  /\ chan[1].duty1 = 32767 /\ chan[1].duty2 = 32767

\* C3: when configure reports a fault during set_mode(c, m) with m # DISABLED,
\* set_mode returns that fault, the channel is DISABLED on return, and disable
\* was invoked after the failed configure.
C3_ConfigureFaultDisables ==
  (/\ Returned("regulator_set_mode")
   /\ \E i \in 1..Len(last.calls) : last.calls[i] = "configure_fault")
  => /\ last.ret = -1
     /\ chan[last.ch].mode = "DISABLED"
     /\ Len(last.calls) >= 2
     /\ last.calls[Len(last.calls) - 1] = "configure_fault"
     /\ last.calls[Len(last.calls)] = "disable"

C3_Witness ==
  /\ Returned("regulator_set_mode") /\ last.ret = -1
  /\ last.calls = <<"enable", "configure_fault", "disable">>
  /\ chan[last.ch].mode = "DISABLED"

AllDutyPairs == DutyPairs(1) \cup DutyPairs(2)

\* C4: set_duty_cycle(c, d1, d2) is rejected whenever the mode is neither
\* DISABLED nor CONST_DUTY or d2 > d1, and a rejected call changes neither the
\* channel nor the PWM registers; an accepted call returns with duty1 = d1 and
\* duty2 = d2.
C4_SetDutyCycle ==
  [][/\ \A c \in Channels : \A d \in AllDutyPairs :
          regulator_set_duty_cycle(c, d[1], d[2]) =>
            IF chan[c].mode \notin {"DISABLED", "CONST_DUTY"} \/ d[2] > d[1]
            THEN /\ last'.op = "regulator_set_duty_cycle" /\ last'.ret # 0
                 /\ cp' = Idle
                 /\ chan' = chan /\ hw' = hw /\ ch2_oc' = ch2_oc
            ELSE cp'.op = "regulator_set_duty_cycle"
     /\ (cp.op = "regulator_set_duty_cycle" /\ cp'.op = "idle") =>
          /\ last'.op = "regulator_set_duty_cycle" /\ last'.ret = 0
          /\ chan'[cp.ch].duty1 = cp.d1 /\ chan'[cp.ch].duty2 = cp.d2]_vars

C4_Witness ==
  /\ Returned("regulator_set_duty_cycle") /\ last.ret = 2
  /\ chan[last.ch].mode = "CONST_DUTY"
  /\ chan[last.ch].duty1 = 32768 /\ chan[last.ch].duty2 = 1000

\* the capability calls set_mode makes from old mode to new mode
ExpectedCalls(old, new, fault) ==
  (IF old = "DISABLED" /\ new # "DISABLED" THEN <<"enable">> ELSE <<>>)
  \o (IF new = "DISABLED" THEN <<"disable">> ELSE <<>>)
  \o (IF new = "DISABLED" THEN <<>>
      ELSE IF fault THEN <<"configure_fault", "disable">> ELSE <<"configure">>)

\* C5: set_mode invokes enable exactly when old = DISABLED and new # DISABLED,
\* disable exactly when new = DISABLED or configure faults, configure exactly
\* when new # DISABLED, enable before configure; between two enabled modes it
\* invokes configure only.
C5_CapabilityCalls ==
  [][(cp.op = "regulator_set_mode" /\ cp'.op = "idle") =>
       /\ last'.op = "regulator_set_mode"
       /\ last'.calls = ExpectedCalls(cp.old, cp.mode, cp.ret # 0)]_vars

C5_Witness ==
  /\ Returned("regulator_set_mode") /\ last.ret = 0
  /\ last.calls = <<"configure">>
  /\ chan[last.ch].mode = "VOLTAGE_FB"

\* C6: outside a set_mode call in progress, the ADC and its trigger timer run
\* if and only if some channel is not DISABLED.
C6_AdcFollowsModes ==
  cp.op # "regulator_set_mode" =>
    (AdcRunning(hw) <=> \E c \in Channels : chan[c].mode # "DISABLED")

C6_Witness ==
  /\ Returned("regulator_set_mode") /\ last.calls = <<"disable">>
  /\ chan[last.ch].mode = "DISABLED"
  /\ hw.tim[IF last.ch = 1 THEN "TIM2" ELSE "TIM3"].arr # 0
  /\ \E c \in Channels : chan[c].mode # "DISABLED"
  /\ AdcRunning(hw)

\* C7: after regulator_feedback on a channel in VOLTAGE_FB or CURRENT_FB mode,
\* duty1 and duty2 lie in [0, 0xffff], whatever they were before the tick.
C7_DutyClamped ==
  [][TickStep =>
       \A c \in Channels :
         (chan[c].mode \in FeedbackModes /\ last'.path[c] # "-") =>
           /\ 0 <= chan'[c].duty1 /\ chan'[c].duty1 <= 65535
           /\ 0 <= chan'[c].duty2 /\ chan'[c].duty2 <= 65535]_vars

C7_Witness ==
  /\ last.op = "adc1_isr" /\ last.path[1] = "normal"
  /\ chan[1].mode = "VOLTAGE_FB" /\ chan[1].vsense > chan[1].vsetpoint
  /\ chan[1].duty1 = 65535

\* C8: in every reachable state each channel's duty1 and duty2 are fractions
\* in [0, 0x10000].
C8_DutyInRange ==
  \A c \in Channels : InRange(chan[c].duty1) /\ InRange(chan[c].duty2)

AllPeriodInputs == PeriodInputs(1) \cup PeriodInputs(2)

\* C9: set_period and set_ch2_source succeed only while the channel is
\* DISABLED; otherwise they return an error and change nothing; period never
\* changes while the mode is not DISABLED.
C9_OnlyWhileDisabled ==
  [][/\ \A c \in Channels : \A p \in AllPeriodInputs :
          regulator_set_period(c, p) =>
            IF chan[c].mode # "DISABLED"
            THEN /\ last'.ret # 0
                 /\ chan' = chan /\ hw' = hw /\ ch2_oc' = ch2_oc
            ELSE last'.ret = 0 /\ chan'[c].period = p
     /\ \A src \in Sources :
          regulator_set_ch2_source(src) =>
            IF chan[2].mode # "DISABLED"
            THEN /\ last'.ret # 0
                 /\ chan' = chan /\ hw' = hw /\ ch2_oc' = ch2_oc
            ELSE last'.ret = 0
     /\ \A c \in Channels :
          chan[c].mode # "DISABLED" => chan'[c].period = chan[c].period]_vars

C9_Witness ==
  /\ Returned("regulator_set_period") /\ last.ret = -1
  /\ chan[last.ch].mode # "DISABLED" /\ chan[last.ch].period = 400

\* value * gain >> 16 without any reduction
TrueCodepoint(gain, value) == gain * (value \div W16) + (gain * (value % W16)) \div W16

AllSetpointInputs == SetpointInputs(1) \cup SetpointInputs(2)

\* C10: set_vsetpoint and set_isetpoint reject the call and keep the stored
\* setpoint whenever value * sense_gain >> 16 exceeds the channel's limit,
\* also when that codepoint does not fit in 16 bits.
C10_SetpointLimit ==
  [][\A c \in Channels : \A x \in AllSetpointInputs :
       /\ (regulator_set_vsetpoint(c, x)
           /\ TrueCodepoint(chan[c].vsense_gain, x) > chan[c].vlimit)
          => last'.ret # 0 /\ chan'[c].vsetpoint = chan[c].vsetpoint
       /\ (regulator_set_isetpoint(c, x)
           /\ TrueCodepoint(chan[c].isense_gain, x) > chan[c].ilimit)
          => last'.ret # 0 /\ chan'[c].isetpoint = chan[c].isetpoint]_vars

\* the compare registers of a timer
Ccr(h, timer) == h.tim[timer].ccr

\* C11: whenever the tick count t = (duty * period) >> 16 that set_pwm_duty
\* computes exceeds 0xffff, the core enters the halt and that call writes no
\* compare value to its timer; once halted, the core stays halted and no
\* register or channel field changes any more.
C11_OverflowHalts ==
  [][/\ TickStep =>
          /\ (Updates(chan[1])
               /\ PwmTicks(chan'[1].period, chan'[1].duty1) > 65535)
              => /\ halted'
                 /\ Ccr(hw', "TIM2") = Ccr(hw, "TIM2")
                 /\ Ccr(hw', "TIM4") = Ccr(hw, "TIM4")
          /\ (Updates(chan[1])
               /\ PwmTicks(chan'[1].period, chan'[1].duty1) <= 65535
               /\ PwmTicks(chan'[1].period, chan'[1].duty2) > 65535)
              => halted' /\ Ccr(hw', "TIM4") = Ccr(hw, "TIM4")
          /\ (Updates(chan[2]) /\ last'.path[2] # "-"
               /\ PwmTicks(chan'[2].period, chan'[2].duty1) > 65535)
              => halted' /\ Ccr(hw', "TIM3") = Ccr(hw, "TIM3")
     /\ halted => (halted' /\ hw' = hw /\ chan' = chan)]_vars

C11_Witness ==
  /\ halted /\ last.op = "adc1_isr" /\ last.path[1] = "normal"
  /\ chan[1].period = 131072
  /\ PwmTicks(chan[1].period, chan[1].duty1) > 65535

\* the gain pair of the active domain of channel c
TickGains(c) == IF chan[c].mode = "VOLTAGE_FB" THEN chan[c].v_gains ELSE chan[c].i_gains

\* duty1 of channel c less the proportional correction of this step
NormalDuty1(c) == chan[c].duty1 - FixMul(TickError(c), TickGains(c).prop_gain1)

Saturate(x) == IF x < 0 THEN 0 ELSE IF x > 65535 THEN 65535 ELSE x

\* C12 as stated: in the normal operating region one tick changes duty1 by
\* exactly -((error * prop_gain1) >> 16) and leaves duty2 unchanged unless it
\* exceeds the new duty1, in which case duty2 becomes the new duty1.  Stated
\* over duties that are fractions in [0, 0x10000] before the tick.
C12_NormalStepExact ==
  [][TickStep =>
       \A c \in Channels :
         (/\ chan[c].mode \in FeedbackModes /\ last'.path[c] = "normal"
          /\ InRange(chan[c].duty1) /\ InRange(chan[c].duty2))
         => /\ chan'[c].duty1 = NormalDuty1(c)
            /\ chan'[c].duty2 = IF chan[c].duty2 > NormalDuty1(c)
                                THEN NormalDuty1(c) ELSE chan[c].duty2]_vars

\* C12 as amended: in the normal operating region one tick leaves duty1 at
\* duty1 - ((error * prop_gain1) >> 16) limited to [0, 0xffff], and duty2 at
\* the smaller of duty2 and that difference, limited to [0, 0xffff].
C12_NormalStepClamped ==
  [][TickStep =>
       \A c \in Channels :
         (chan[c].mode \in FeedbackModes /\ last'.path[c] = "normal")
         => /\ chan'[c].duty1 = Saturate(NormalDuty1(c))
            /\ chan'[c].duty2 = Saturate(IF chan[c].duty2 > NormalDuty1(c)
                                         THEN NormalDuty1(c) ELSE chan[c].duty2)]_vars

\* duty1 = 0x8000, vsetpoint = 2000, vsense = 1800: duty1 becomes 0x8000 + 200
C12_Witness ==
  /\ last.op = "adc1_isr" /\ last.path[1] = "normal"
  /\ chan[1].mode = "VOLTAGE_FB"
  /\ chan[1].vsetpoint = 2000 /\ chan[1].vsense = 1800
  /\ chan[1].duty1 = 32768 + 200 /\ chan[1].duty2 = 1000

\* the channel as regulator_feedback finds it in this step
Sampled(c) == [chan[c] EXCEPT !.vsense = chan'[c].vsense, !.isense = chan'[c].isense]

\* C13: in VOLTAGE_FB mode with isense > ilimit (CURRENT_FB with vsense >
\* vlimit) one tick halves duty1 and duty2 and does not run the mixing
\* algorithm, whatever the error; with the limit not exceeded it runs the
\* mixing algorithm with error = sensed - setpoint and the gains of the active
\* domain.  The halving is stated over duties in [0, 0x10000] before the tick.
C13_LimitHalves ==
  [][TickStep =>
       \A c \in Channels :
         (chan[c].mode \in FeedbackModes /\ last'.path[c] # "-") =>
           /\ (TickLimit(c) /\ InRange(chan[c].duty1) /\ InRange(chan[c].duty2))
              => /\ last'.path[c] = "halve"
                 /\ chan'[c].duty1 = Half(chan[c].duty1)
                 /\ chan'[c].duty2 = Half(chan[c].duty2)
           /\ ~TickLimit(c)
              => LET r == regulator_feedback_error(Sampled(c), TickGains(c), TickError(c))
                 IN /\ last'.path[c] = MixBranch(chan[c], TickError(c))
                    /\ chan'[c].duty1 = Saturate(r.duty1)
                    /\ chan'[c].duty2 = Saturate(r.duty2)]_vars

C13_Witness ==
  /\ last.op = "adc1_isr" /\ last.path[1] = "halve"
  /\ chan[1].mode = "VOLTAGE_FB" /\ chan[1].isense > chan[1].ilimit
  /\ chan[1].vsense < chan[1].vsetpoint
  /\ chan[1].duty1 = 30000 /\ chan[1].duty2 = 25000

\* the PWM timers of channel c
PwmTimers(c) == IF c = 1 THEN {"TIM2", "TIM4"} ELSE {"TIM3"}

\* C14: a tick on a channel whose mode is DISABLED or CONST_DUTY changes only
\* its vsense and isense: duty1, duty2, mode, period, setpoints and every other
\* field stay as they were, update_duty is not invoked for it and its PWM
\* timers are not written.
C14_IdleTickFrame ==
  [][TickStep =>
       \A c \in Channels :
         chan[c].mode \in {"DISABLED", "CONST_DUTY"} =>
           /\ chan'[c] = Sampled(c)
           /\ \A i \in 1..Len(last'.calls) : last'.calls[i] # <<"update_duty", c>>
           /\ \A t \in PwmTimers(c) : hw'.tim[t] = hw.tim[t]]_vars

C14_Witness ==
  /\ last.op = "adc1_isr" /\ last.path[1] = "return" /\ last.calls = <<>>
  /\ chan[1].mode = "CONST_DUTY"
  /\ chan[1].duty1 = 32768 /\ chan[1].duty2 = 1000
  /\ chan[1].vsense = 1800 /\ chan[1].isense = 1800

\* the number of update_duty calls the last interrupt made for channel c
UpdateCalls(c) ==
  Cardinality({ i \in 1..Len(last'.calls) : last'.calls[i] = <<"update_duty", c>> })

\* C15: on every tick that runs regulator_feedback on a channel in VOLTAGE_FB
\* or CURRENT_FB mode, update_duty is invoked exactly once for it and pushes
\* the duties as they are after the clamp, also when the duties did not change
\* and when the limit-halving path was taken.
C15_UpdateEveryTick ==
  [][TickStep =>
       \A c \in Channels :
         (chan[c].mode \in FeedbackModes /\ last'.path[c] # "-") =>
           /\ UpdateCalls(c) = 1
           /\ 0 <= chan'[c].duty2 /\ chan'[c].duty1 <= 65535
           /\ ~halted' =>
                IF c = 1
                THEN /\ Ccr(hw', "TIM2")["TIM_OC3"]
                          = PwmTicks(chan'[1].period, chan'[1].duty1)
                     /\ Ccr(hw', "TIM4")["TIM_OC3"]
                          = PwmTicks(chan'[1].period, chan'[1].duty2)
                ELSE Ccr(hw', "TIM3")[ch2_oc]
                          = PwmTicks(chan'[2].period, chan'[2].duty1)]_vars

\* the halving path on duties of zero: nothing changed, one update pushed
C15_Witness ==
  /\ last.op = "adc1_isr" /\ last.path[1] = "halve"
  /\ last.calls = << <<"update_duty", 1>> >>
  /\ chan[1].mode = "CURRENT_FB" /\ chan[1].vsense > chan[1].vlimit
  /\ chan[1].duty1 = 0 /\ chan[1].duty2 = 0

\* one codepoint in 16.16 units, rounded up
Quantum(gain) == (W16 + gain - 1) \div gain

Near(a, b, q) == a - b <= q /\ b - a <= q

\* C16: for every value accepted by set_vsetpoint (set_isetpoint), a
\* get_vsetpoint (get_isetpoint) that follows it returns a value within one
\* codepoint (65536 / sense_gain in 16.16 units) of the value that was set.
C16_SetpointRoundTrip ==
  [][\A c \in Channels :
       /\ (/\ regulator_get_vsetpoint(c)
            /\ last.op = "regulator_set_vsetpoint" /\ last.ch = c /\ last.ret = 0)
           => Near(last'.ret, last.arg, Quantum(chan[c].vsense_gain))
       /\ (/\ regulator_get_isetpoint(c)
            /\ last.op = "regulator_set_isetpoint" /\ last.ch = c /\ last.ret = 0)
           => Near(last'.ret, last.arg, Quantum(chan[c].isense_gain))]_vars

\* (error * prop_gain2) >> 16 of channel c in this step
Delta2(c) == FixMul(TickError(c), TickGains(c).prop_gain2)

Min(a, b) == IF a < b THEN a ELSE b

\* C17: the mixing algorithm takes the first branch whose condition holds, in
\* the order 1..5, and branches 2-4 adjust duty2 only: (2) error < 0 and
\* duty1 > 0xffff - fudge: duty2 decreases by (error * prop_gain2) >> 16;
\* (3) error > 0 and duty1 < fudge: the same; (4) error < 0 and duty2 > fudge:
\* duty2 increases by it; then duty2 is limited to duty1.  Observed after the
\* clamp of the tick, for duties that are fractions in [0, 0x10000] before it.
C17_SaturationBranches ==
  [][TickStep =>
       \A c \in Channels :
         (/\ chan[c].mode \in FeedbackModes /\ last'.path[c] # "-" /\ ~TickLimit(c)
          /\ InRange(chan[c].duty1) /\ InRange(chan[c].duty2)) =>
           LET e == TickError(c)
               d1 == chan[c].duty1
               d2 == chan[c].duty2
               b1 == e < 0 /\ d1 > 65535 - fudge /\ d2 > 65535 - fudge
               b2 == ~b1 /\ e < 0 /\ d1 > 65535 - fudge
               b3 == ~b1 /\ ~b2 /\ e > 0 /\ d1 < fudge
               b4 == ~b1 /\ ~b2 /\ ~b3 /\ e < 0 /\ d2 > fudge
           IN /\ b2 => /\ last'.path[c] = "sw1_overflow"
                       /\ chan'[c].duty1 = Saturate(d1)
                       /\ chan'[c].duty2 = Saturate(Min(d2 - Delta2(c), d1))
              /\ b3 => /\ last'.path[c] = "sw1_underflow"
                       /\ chan'[c].duty1 = Saturate(d1)
                       /\ chan'[c].duty2 = Saturate(Min(d2 - Delta2(c), d1))
              /\ b4 => /\ last'.path[c] = "sw2"
                       /\ chan'[c].duty1 = Saturate(d1)
                       /\ chan'[c].duty2 = Saturate(Min(d2 + Delta2(c), d1))
              /\ (b1 \/ b2 \/ b3 \/ b4
                  \/ last'.path[c] = "normal")]_vars

\* duty1 = 0xffff, duty2 = 0x8000, error = -200: branch 2 raises duty2 by 200
C17_Witness ==
  /\ last.op = "adc1_isr" /\ last.path[1] = "sw1_overflow"
  /\ chan[1].mode = "VOLTAGE_FB"
  /\ chan[1].vsetpoint = 2000 /\ chan[1].vsense = 1800
  /\ chan[1].duty1 = 65535 /\ chan[1].duty2 = 32768 + 200

\* C18: whenever no API call is in progress, a channel whose mode is DISABLED
\* has the outputs of its PWM timers disabled and their counters stopped; no
\* call accepted while the channel is DISABLED turns one of them on.
C18_DisabledIsOff ==
  cp.op = "idle" =>
    \A c \in Channels :
      chan[c].mode = "DISABLED" =>
        \A t \in PwmTimers(c) : hw.tim[t].oe = {} /\ ~hw.tim[t].cen

\* C19: a tick taken inside set_mode(c, m), before enable and configure have
\* both completed or after a configure fault was detected, neither runs the
\* regulation of channel c nor pushes a duty update for it.
C19_NoFeedbackInsideSetMode ==
  [][(TickStep /\ cp.op = "regulator_set_mode") =>
       /\ last'.path[cp.ch] \in {"-", "return"}
       /\ \A i \in 1..Len(last'.calls) : last'.calls[i] # <<"update_duty", cp.ch>>]_vars

\* C20: the halt of set_pwm_duty is entered only after a period above 0xffff
\* has been accepted: while every channel's period is at most 0xffff (the
\* initial 400 or a value stored by set_period), no sequence of calls and
\* ticks halts the core.
C20_HaltNeedsLongPeriod ==
  halted => \E c \in Channels : chan[c].period > 65535

\* a tick that pushed full-scale duties against the longest 16-bit period
C20_Witness ==
  /\ ~halted /\ last.op = "adc1_isr" /\ last.calls = << <<"update_duty", 1>> >>
  /\ chan[1].period = 65535 /\ chan[2].period <= 65535
  /\ chan[1].duty1 = 65535
  /\ Ccr(hw, "TIM2")["TIM_OC3"] = 65534

====
